---- MODULE Spec2Model ----
(***************************************************************************)
(* State-machine model of the mail ingestion core:                          *)
(*   - ImapClient (src/src/imap/imapClient.ts): one account session, its    *)
(*     timers, its closed flag, the node-imap connection it drives and the  *)
(*     signals it emits;                                                    *)
(*   - the orchestrator's 'message' handler (src/unnamed/part_001, the      *)
(*     repository's src/index.ts), classifyEmail (src/src/ai/classifier.ts) *)
(*     and the index helpers (src/src/indexers/elasticsearch.ts).           *)
(*   - the retry loops of classifyEmail, generateText                      *)
(*     (src/src/ai/generator.ts) and embedText (src/unnamed/part_002), the  *)
(*     id of a built document and the header parse of a fetched message,    *)
(*     each under a specification of its own.                               *)
(* The node-imap connection, the index store, the remote classifier and    *)
(* the webhook sinks are the environment: their events and answers are     *)
(* drawn nondeterministically from small sets.                              *)
(***************************************************************************)
EXTENDS Naturals, Sequences, FiniteSets, TLC

(* ------------------------------ bounds -------------------------------- *)
\* configured folders per account (cfg.folders) range over 1..MaxFolders
MaxFolders == 2
\* transport faults the environment may inject (error events, server-side
\* end, the end of a replaced socket, failing callbacks, a throwing idle());
\* afterwards the transport is healthy
MaxFaults == 2
\* connect() calls made by the owner of the session
MaxOwnerConnects == 2
\* fetchRecent() calls in flight at once
MaxRecent == 1
\* messages a search may return / a mail or expunge event may announce
MaxMsgs == 2

\* lines of a header block
MaxLines == 2
\* messages whose document ids are compared
MaxDocs == 2
\* 'message' handler invocations
MaxTasks == 2
\* largest uid an envelope carries (0: the envelope got no attributes)
MaxUid == 2

(* -------------------------- program constants ------------------------- *)
\* classifyEmail: const maxAttempts = 5
MaxAttempts == 5
\* classifyEmail: let wait = 1000
BackoffBase == 1000
\* onMail calls this.fetchRecent(1)
FetchRecentLimit == 1
\* fetchRecent(limit = 10): the window when no limit is passed
DefaultLimit == 10
\* generateText: const maxAttempts = 5
GenMaxAttempts == 5
\* generateText: const backoff = 500 * Math.pow(2, attempt - 1)
GenBackoffBase == 500
\* embedText: const maxAttempts = 4
EmbMaxAttempts == 4
\* embedText: const backoff = 500 * Math.pow(2, attempt - 1)
EmbBackoffBase == 500

VARIABLES
  \* ---- ImapClient fields
  closed,          \* this.closed
  idleTimer,       \* this.idleTimer holds a handle (field not undefined)
  idleArmed,       \* the idle watchdog timeout is pending in the event loop
  reconnectTimer,  \* this.reconnectTimer holds a handle (field not undefined)
  reconnectArmed,  \* number of reconnect timeouts pending in the event loop
  readyOnce,       \* the once('ready') listener is still registered
  numFolders,      \* Len(cfg.folders)
  \* ---- the node-imap connection
  conn,            \* "disconnected" | "connecting" | "ready" | "ending"
  orphan,          \* a socket replaced by a later connect() is still open
  box,             \* index of the mailbox that is open (0: none)
  idling,          \* idle() succeeded on the current connection
  \* ---- the onReady coroutine and the fetchRecent promises
  pcReady,         \* "none"|"openBox"|"search"|"fetch"|"done"|"rejected"|"hung"
  folderIdx,       \* folder the onReady loop is at
  syncCount,       \* messages the initial-sync fetch is retrieving
  recent,          \* sequence of fetchRecent calls in flight
  \* ---- observation
  out,             \* signals emitted by the last step, in order
  failed,          \* command whose failure the last step delivered ("none")
  faults,          \* faults injected so far
  ownerClosed,     \* the owner called close() and not connect() since
  ownerConnects,   \* connect() calls made by the owner
  attempts,        \* imap.connect() calls made so far
  lostAt           \* 0, or the value of faults when an error hit the session
                   \* while Watching and Watching has not been reached since

VARIABLES
  \* ---- the orchestrator and its collaborators
  tasks,           \* the 'message' handler invocations, in order of arrival
  store            \* the index store: document id -> aiCategory of the document

VARIABLES
  \* ---- the header block of one fetched message
  hdr              \* the lines received, and the envelope once 'end' has come

VARIABLES
  \* ---- the ids the handler gives to documents
  docs             \* messages handled so far, each with the id of its document

VARIABLES
  \* ---- one call of classifyEmail, generateText or embedText
  call             \* the function, where its retry loop stands, its outcome

sessVars == <<closed, idleTimer, idleArmed, reconnectTimer, reconnectArmed,
              readyOnce, numFolders, conn, orphan, box, idling, pcReady,
              folderIdx, syncCount, recent, out, failed, faults,
              ownerClosed, ownerConnects, attempts, lostAt>>

pipeVars == <<tasks, store>>

retryVars == <<call>>

idVars == <<docs>>

hdrVars == <<hdr>>

vars == <<sessVars, pipeVars, retryVars, idVars, hdrVars>>

(* ------------------------------ helpers ------------------------------- *)
Sig(t, a) == [type |-> t, arg |-> a]

SigTypes(s) == {s[i].type : i \in 1..Len(s)}

Emitted(t) == t \in SigTypes(out)

\* a step that emits the signals s and delivers no command failure
Emit(s) == out' = s /\ failed' = "none"

\* a step that emits s; idle() threw in it or not
EmitIdle(s, throws) ==
  out' = s \o (IF throws THEN <<Sig("error", 0)>> ELSE <<>>)
  /\ failed' = (IF throws THEN "idle" ELSE "none")

Awaiting == {"openBox", "search", "fetch"}

\* a command callback that can no longer arrive leaves its awaiter suspended
Drop(pc) == IF pc \in Awaiting THEN "hung" ELSE pc

\* a command issued behind LOGOUT (after end()) is never answered
Issue(next) == IF conn = "ready" THEN next ELSE "hung"

\* results.slice(-limit)
SliceLast(s, limit) ==
  IF Len(s) <= limit THEN s ELSE SubSeq(s, Len(s) - limit + 1, Len(s))

UidsUpTo(n) == [i \in 1..n |-> i]

Watching == conn = "ready" /\ idling /\ pcReady = "done"

(* ------------------------ ImapClient fragments ------------------------ *)
\* a scheduleReconnect() without its first line (C21 must reject it)
ScheduleReconnect_NoGuard ==
  /\ reconnectTimer' = TRUE
  /\ reconnectArmed' = reconnectArmed + 1

\* scheduleReconnect(): returns at once when the field holds a handle
ScheduleReconnect ==
  /\ reconnectTimer' = TRUE
  /\ reconnectArmed' = (IF reconnectTimer THEN reconnectArmed
                                          ELSE reconnectArmed + 1)

NoReconnectChange == UNCHANGED <<reconnectTimer, reconnectArmed>>

\* clearIdleTimer()
ClearIdleTimer ==
  /\ idleTimer' = FALSE
  /\ idleArmed' = FALSE

\* this.imap.connect(): a new socket; queued commands and callbacks are gone
ImapConnect ==
  /\ conn' = "connecting"
  /\ orphan' = (orphan \/ conn \in {"connecting", "ready", "ending"})
  /\ attempts' = attempts + 1
  /\ box' = 0
  /\ idling' = FALSE
  /\ pcReady' = Drop(pcReady)
  /\ recent' = <<>>

\* this.imap.end(): LOGOUT is queued on a live connection
ImapEnd(c) == IF c \in {"connecting", "ready"} THEN "ending" ELSE c

\* startIdle(): idle() throws or not; on success the watchdog is (re)armed
StartIdle(throws) ==
  IF throws
    THEN /\ UNCHANGED <<idleTimer, idleArmed, idling>>
         /\ ScheduleReconnect
    ELSE /\ idleTimer' = TRUE
         /\ idleArmed' = TRUE
         /\ idling' = TRUE
         /\ NoReconnectChange

\* the for-loop of onReady moves to the next folder or ends
NextFolder ==
  IF folderIdx < numFolders
    THEN /\ pcReady' = Issue("openBox")
         /\ folderIdx' = folderIdx + 1
    ELSE /\ pcReady' = "done"
         /\ folderIdx' = folderIdx

\* an onReady loop that goes to the next folder without startIdle() (C12 must
\* reject it)
AfterSync_NoIdle(throws) ==
  /\ UNCHANGED <<idleTimer, idleArmed, idling>>
  /\ NoReconnectChange
  /\ NextFolder
  /\ faults' = faults
  /\ lostAt' = lostAt

\* the tail of onReady's loop body once initialSync has resolved
AfterSync(throws) ==
  /\ StartIdle(throws)
  /\ NextFolder
  /\ faults' = (IF throws THEN faults + 1 ELSE faults)
  /\ lostAt' = (IF ~throws /\ folderIdx >= numFolders /\ conn = "ready"
                  THEN 0 ELSE lostAt)

(* ------------------- documents, classifier, index store --------------- *)
\* id of the account whose client the handler is subscribed to (makeConfig(1))
Account == "acct-1"

\* Message-ID header values a parsed message may carry; NoMid: none
MessageIds == {"m1"}
NoMid == "<none>"

\* id: parsed.messageId ?? `${c.id}-${uid}`
DocId(mid, acct, uid) ==
  IF mid # NoMid THEN [k |-> "messageId", a |-> mid, u |-> 0]
                 ELSE [k |-> "acct-uid", a |-> acct, u |-> uid]

NoId == [k |-> "none", a |-> "", u |-> 0]

\* ids of configs = [makeConfig(1), makeConfig(2)]
Accounts == {"acct-1", "acct-2"}

\* cfg.folders of an account: IMAP_FOLDERS split at the commas
Mailboxes == {"INBOX", "Sent"}

\* a message as the server holds it: uids are given per mailbox
Messages ==
  [acct : Accounts, mailbox : Mailboxes, uid : 1..MaxUid,
   mid : MessageIds \cup {NoMid}]

DocIds ==
  {DocId(m, Account, 0) : m \in MessageIds}
    \cup {DocId(NoMid, Account, u) : u \in 1..MaxUid}

\* const allowed: AICategory[]
Allowed ==
  {"Interested", "Meeting Booked", "Not Interested", "Spam", "Out of Office"}

\* a document built without a category (C6 must reject it)
DefaultCategory_Missing == "<undefined>"

\* aiCategory: 'Uncategorized' of the document the handler builds
DefaultCategory == "Uncategorized"

\* a classifyEmail that rethrows the last error (C7 must reject it)
ClassifyFallback_Throws == [thrown |-> TRUE, cat |-> "Uncategorized"]

\* what classifyEmail returns once its attempts are used up
ClassifyFallback == [thrown |-> FALSE, cat |-> "Uncategorized"]

\* type AICategory
AICategory == Allowed \cup {"Uncategorized"}

\* values of parsed.category in a model answer: the actionable label, another
\* label, strings outside the labels, no such field, a value that is no string
Missing == "<undefined>"
NotAString == "<number>"
CategoryValues ==
  {"Interested", "Spam", "Uncategorized", "interested", Missing, NotAString}

\* answers of the remote model to one fetch: the fetch throws, the status is
\* not ok, the text holds no {...}, the {...} is no JSON, or JSON with a category
Responses ==
  {[net |-> "throws", text |-> "", category |-> Missing],
   [net |-> "status", text |-> "", category |-> Missing],
   [net |-> "ok", text |-> "noBraces", category |-> Missing],
   [net |-> "ok", text |-> "badJson", category |-> Missing]}
    \cup {[net |-> "ok", text |-> "json", category |-> c] : c \in CategoryValues}

\* typeof cat === 'string'
IsString(c) == c \notin {Missing, NotAString}

\* a validation that accepts every string as a category (C13 must reject it)
AttemptSucceeds_AnyString(resp) ==
  /\ resp.net = "ok"
  /\ resp.text = "json"
  /\ IsString(resp.category)

\* one pass of the try-block of classifyEmail: TRUE when it reaches `return cat`
AttemptSucceeds(resp) ==
  /\ resp.net = "ok"
  /\ resp.text = "json"
  /\ IsString(resp.category)
  /\ resp.category \in Allowed

RECURSIVE Pow2(_)
Pow2(n) == IF n = 0 THEN 1 ELSE 2 * Pow2(n - 1)

\* const backoff = wait * Math.pow(2, attempt - 1)
Backoff(attempt) == BackoffBase * Pow2(attempt - 1)

(* ----------------- the header parse of a fetched message -------------- *)
\* values a header line may carry
HeaderValues == {"Mon, 01 Jan 2024 10:00:00 +0000", "not a date"}

\* a line of the block after trim(): its field name in lower case, whether the
\* block spells the name with capital letters, and what follows the colon
HeaderLines ==
  [field : {"subject", "date", "from", "to", "x-mailer"}, upper : BOOLEAN,
   value : HeaderValues]

\* line.toLowerCase().startsWith(prefix + ':')
LowerStartsWith(line, prefix) ==
  LET lower == [line EXCEPT !.upper = FALSE]
  IN lower.field = prefix /\ ~lower.upper

\* new Date(s): a Date object, an Invalid Date when s does not parse
NewDate(s) ==
  [kind |-> "Date", valid |-> (s = "Mon, 01 Jan 2024 10:00:00 +0000"),
   src |-> s]

\* a field the envelope does not have
UnsetDate == [kind |-> "undefined", valid |-> FALSE, src |-> ""]

\* const envelope: Partial<MailEnvelope> = { uid: 0, flags: [] }
EmptyEnvelope ==
  [subject |-> Missing, date |-> UnsetDate, from |-> Missing, to |-> Missing]

\* the four ifs of the loop body, applied to one line
ParseLine(env, line) ==
  LET e1 == IF LowerStartsWith(line, "subject")
              THEN [env EXCEPT !.subject = line.value] ELSE env
      e2 == IF LowerStartsWith(line, "date")
              THEN [e1 EXCEPT !.date = NewDate(line.value)] ELSE e1
      e3 == IF LowerStartsWith(line, "from")
              THEN [e2 EXCEPT !.from = line.value] ELSE e2
  IN IF LowerStartsWith(line, "to")
       THEN [e3 EXCEPT !.to = line.value] ELSE e3

\* for (const line of lines) { ... }
RECURSIVE ParseHeaders(_, _)
ParseHeaders(env, lines) ==
  IF lines = <<>> THEN env
  ELSE ParseHeaders(ParseLine(env, Head(lines)), Tail(lines))

NoHeaders == [lines |-> <<>>, st |-> "receiving", envelope |-> EmptyEnvelope]

(* ------------- the retry loops of the three remote calls ------------- *)
RemoteCalls == {"classifyEmail", "generateText", "embedText"}

\* answers of the remote model to generateText's fetch; out is the value of the
\* first recognised field of the parsed JSON (output[0].content[0].text, ...)
GenResponses ==
  {[net |-> "throws", text |-> "", out |-> Missing],
   [net |-> "status", text |-> "", out |-> Missing],
   [net |-> "ok", text |-> "noBraces", out |-> Missing],
   [net |-> "ok", text |-> "badJson", out |-> Missing]}
    \cup {[net |-> "ok", text |-> "json", out |-> o] :
            o \in {"generated", Missing, NotAString}}

\* answers to embedText's fetch; emb is the value of the first embedding field
\* of the parsed JSON (output[0].embedding, ...)
EmbResponses ==
  {[net |-> "throws", text |-> "", emb |-> Missing],
   [net |-> "status", text |-> "", emb |-> Missing],
   [net |-> "ok", text |-> "noBraces", emb |-> Missing],
   [net |-> "ok", text |-> "badJson", emb |-> Missing]}
    \cup {[net |-> "ok", text |-> "json", emb |-> e] :
            e \in {"vector", "emptyVector", Missing, NotAString}}

ResponsesOf(fn) ==
  CASE fn = "classifyEmail" -> Responses
    [] fn = "generateText" -> GenResponses
    [] fn = "embedText" -> EmbResponses

\* one pass of the try-block of classifyEmail
ClassifyTry(resp) ==
  IF AttemptSucceeds(resp) THEN [ok |-> TRUE, value |-> resp.category]
                           ELSE [ok |-> FALSE, value |-> Missing]

\* one pass of the try-block of generateText: a failed fetch or a status that
\* is not ok throws; a string in a recognised field is returned; anything else
\* (no brace, JSON.parse throwing, no string in the fields) returns the raw text
GenerateTry(resp) ==
  IF resp.net # "ok" THEN [ok |-> FALSE, value |-> Missing]
  ELSE IF resp.text = "json" /\ IsString(resp.out)
         THEN [ok |-> TRUE, value |-> resp.out]
         ELSE [ok |-> TRUE, value |-> <<"raw", resp.text>>]

\* if (!emb || !Array.isArray(emb)) throw: an empty array is truthy
IsEmbedding(e) == e \in {"vector", "emptyVector"}

\* one pass of the try-block of embedText
EmbedTry(resp) ==
  IF resp.net = "ok" /\ resp.text = "json" /\ IsEmbedding(resp.emb)
    THEN [ok |-> TRUE, value |-> resp.emb]
    ELSE [ok |-> FALSE, value |-> Missing]

Try(fn, resp) ==
  CASE fn = "classifyEmail" -> ClassifyTry(resp)
    [] fn = "generateText" -> GenerateTry(resp)
    [] fn = "embedText" -> EmbedTry(resp)

\* const maxAttempts of each loop
MaxAttemptsOf(fn) ==
  CASE fn = "classifyEmail" -> MaxAttempts
    [] fn = "generateText" -> GenMaxAttempts
    [] fn = "embedText" -> EmbMaxAttempts

BackoffOf_Flat(fn, attempt) ==
  CASE fn = "classifyEmail" -> BackoffBase
    [] fn = "generateText" -> GenBackoffBase
    [] fn = "embedText" -> EmbBackoffBase

\* const backoff = base * Math.pow(2, attempt - 1) of each loop
BackoffOf(fn, attempt) ==
  CASE fn = "classifyEmail" -> Backoff(attempt)
    [] fn = "generateText" -> GenBackoffBase * Pow2(attempt - 1)
    [] fn = "embedText" -> EmbBackoffBase * Pow2(attempt - 1)

\* a loop that gives up without throwing (C18 must reject it)
RethrowLast_Swallowed(attempt, resp) ==
  [thrown |-> FALSE, value |-> "<undefined>"]

\* if (attempt >= maxAttempts) throw err;
RethrowLast(attempt, resp) ==
  [thrown |-> TRUE, value |-> [attempt |-> attempt, resp |-> resp]]

\* the catch of each loop once attempt >= maxAttempts
Exhausted(fn, attempt, resp) ==
  IF fn = "classifyEmail"
    THEN [thrown |-> ClassifyFallback.thrown, value |-> ClassifyFallback.cat]
    ELSE RethrowLast(attempt, resp)

NoResp == [net |-> "none"]
NoResult == [thrown |-> FALSE, value |-> "<pending>"]
NoCall ==
  [fn |-> "none", st |-> "idle", attempt |-> 0, wait |-> 0, resp |-> NoResp,
   result |-> NoResult]

\* the store maps a document id to the document's aiCategory, or to Absent
Absent == "<absent>"

\* client.index({ index, id: doc.id, document: doc }): upsert of the whole document
IndexEmail(st, id, cat) == [st EXCEPT ![id] = cat]

\* client.update({ index, id, doc: { aiCategory: category } }): partial update
UpdateEmailCategory(st, id, cat) == [st EXCEPT ![id] = cat]

NewTask(acct, uid) ==
  [acct |-> acct, uid |-> uid, id |-> NoId,
   st |-> IF uid = 0 THEN "skipped" ELSE "fetchFull",
   attempt |-> 0, backoff |-> 0, cat |-> "<none>", indexed |-> FALSE,
   updates |-> 0, err |-> "none", notified |-> 0]

(* ------------------------------- Init --------------------------------- *)
Init ==
  /\ closed = FALSE
  /\ idleTimer = FALSE
  /\ idleArmed = FALSE
  /\ reconnectTimer = FALSE
  /\ reconnectArmed = 0
  /\ readyOnce = TRUE
  /\ numFolders \in 1..MaxFolders
  /\ conn = "disconnected"
  /\ orphan = FALSE
  /\ box = 0
  /\ idling = FALSE
  /\ pcReady = "none"
  /\ folderIdx = 0
  /\ syncCount = 0
  /\ recent = <<>>
  /\ out = <<>>
  /\ failed = "none"
  /\ faults = 0
  /\ ownerClosed = FALSE
  /\ ownerConnects = 0
  /\ attempts = 0
  /\ lostAt = 0
  /\ tasks = <<>>
  /\ store = [d \in DocIds |-> Absent]
  /\ call = NoCall
  /\ docs = <<>>
  /\ hdr = NoHeaders

(* ------------------------- owner's operations ------------------------- *)
\* connect()
Connect ==
  /\ ownerConnects < MaxOwnerConnects
  /\ ownerConnects' = ownerConnects + 1
  /\ ownerClosed' = FALSE
  /\ closed' = FALSE
  /\ ImapConnect
  /\ Emit(<<>>)
  /\ UNCHANGED <<idleTimer, idleArmed, reconnectTimer, reconnectArmed,
                 readyOnce, numFolders, folderIdx, syncCount, faults, lostAt>>
  /\ UNCHANGED <<pipeVars, retryVars, idVars, hdrVars>>

\* close()
Close ==
  /\ ownerClosed' = TRUE
  /\ closed' = TRUE
  /\ ClearIdleTimer
  /\ reconnectArmed' = (IF reconnectTimer /\ reconnectArmed > 0
                          THEN reconnectArmed - 1 ELSE reconnectArmed)
  /\ conn' = ImapEnd(conn)
  /\ Emit(<<>>)
  /\ UNCHANGED <<reconnectTimer, readyOnce, numFolders, orphan, box, idling,
                 pcReady, folderIdx, syncCount, recent, faults, ownerConnects,
                 attempts, lostAt>>
  /\ UNCHANGED <<pipeVars, retryVars, idVars, hdrVars>>

(* --------------------------- timer callbacks -------------------------- *)
\* the timeout set by scheduleReconnect fires
ReconnectFire ==
  /\ reconnectArmed > 0
  /\ reconnectTimer' = FALSE
  /\ reconnectArmed' = reconnectArmed - 1
  /\ closed' = FALSE
  /\ ImapConnect
  /\ Emit(<<>>)
  /\ UNCHANGED <<idleTimer, idleArmed, readyOnce, numFolders, folderIdx,
                 syncCount, faults, ownerClosed, ownerConnects, lostAt>>
  /\ UNCHANGED <<pipeVars, retryVars, idVars, hdrVars>>

\* the timeout set by startIdle fires
IdleWatchdog ==
  /\ idleArmed
  /\ idleArmed' = FALSE
  /\ \E throws \in BOOLEAN :
       /\ throws => faults < MaxFaults
       /\ faults' = (IF throws THEN faults + 1 ELSE faults)
       /\ IF throws THEN ScheduleReconnect ELSE NoReconnectChange
       /\ EmitIdle(<<Sig("idleWatchdog", 0)>>, throws)
  /\ UNCHANGED <<closed, idleTimer, readyOnce, numFolders, conn, orphan, box,
                 idling, pcReady, folderIdx, syncCount, recent, ownerClosed,
                 ownerConnects, attempts, lostAt>>
  /\ UNCHANGED <<pipeVars, retryVars, idVars, hdrVars>>

(* -------------------------- connection events ------------------------- *)
\* 'ready': the once-listener runs onReady up to its first await
ReadyEvent ==
  /\ conn = "connecting"
  /\ conn' = "ready"
  /\ IF readyOnce
       THEN /\ readyOnce' = FALSE
            /\ Emit(<<Sig("connected", 0)>>)
            /\ pcReady' = "openBox"
            /\ folderIdx' = 1
       ELSE /\ Emit(<<>>)
            /\ UNCHANGED <<readyOnce, pcReady, folderIdx>>
  /\ UNCHANGED <<closed, idleTimer, idleArmed, reconnectTimer, reconnectArmed,
                 numFolders, orphan, box, idling, syncCount, recent, faults,
                 ownerClosed, ownerConnects, attempts, lostAt>>
  /\ UNCHANGED <<pipeVars, retryVars, idVars, hdrVars>>

\* onError(err)
OnError ==
  /\ Emit(<<Sig("error", 0)>>)
  /\ ScheduleReconnect

\* 'error' of the current connection
ErrorEvent ==
  /\ conn \in {"connecting", "ready", "ending"}
  /\ faults < MaxFaults
  /\ faults' = faults + 1
  /\ conn' = "disconnected"
  /\ idling' = FALSE
  /\ box' = 0
  /\ pcReady' = Drop(pcReady)
  /\ recent' = <<>>
  /\ OnError
  /\ lostAt' = (IF Watching THEN faults + 1 ELSE lostAt)
  /\ UNCHANGED <<closed, idleTimer, idleArmed, readyOnce, numFolders, orphan,
                 folderIdx, syncCount, ownerClosed, ownerConnects, attempts>>
  /\ UNCHANGED <<pipeVars, retryVars, idVars, hdrVars>>

\* onEnd()
OnEnd ==
  /\ Emit(<<Sig("disconnected", 0)>>)
  /\ IF ~closed THEN ScheduleReconnect ELSE NoReconnectChange

\* 'end' of the current connection: after end(), or the server hanging up
EndEvent ==
  /\ conn \in {"ready", "ending"}
  /\ conn = "ready" => faults < MaxFaults
  /\ faults' = (IF conn = "ready" THEN faults + 1 ELSE faults)
  /\ conn' = "disconnected"
  /\ idling' = FALSE
  /\ box' = 0
  /\ pcReady' = Drop(pcReady)
  /\ recent' = <<>>
  /\ OnEnd
  /\ UNCHANGED <<closed, idleTimer, idleArmed, readyOnce, numFolders, orphan,
                 folderIdx, syncCount, ownerClosed, ownerConnects, attempts,
                 lostAt>>
  /\ UNCHANGED <<pipeVars, retryVars, idVars, hdrVars>>

\* 'end' of a socket that a later connect() replaced
OrphanEnd ==
  /\ orphan
  /\ faults < MaxFaults
  /\ faults' = faults + 1
  /\ orphan' = FALSE
  /\ OnEnd
  /\ UNCHANGED <<closed, idleTimer, idleArmed, readyOnce, numFolders, conn, box,
                 idling, pcReady, folderIdx, syncCount, recent, ownerClosed,
                 ownerConnects, attempts, lostAt>>
  /\ UNCHANGED <<pipeVars, retryVars, idVars, hdrVars>>

\* 'mail' -> onMail: emits mail, starts fetchRecent(1)
MailEvent ==
  /\ conn = "ready"
  /\ box # 0
  /\ Len(recent) < MaxRecent
  /\ \E n \in 1..MaxMsgs :
       /\ Emit(<<Sig("mail", n)>>)
       /\ recent' = Append(recent, [st |-> "search", n |-> n, uids |-> <<>>])
  /\ UNCHANGED <<closed, idleTimer, idleArmed, reconnectTimer, reconnectArmed,
                 readyOnce, numFolders, conn, orphan, box, idling, pcReady,
                 folderIdx, syncCount, faults, ownerClosed, ownerConnects,
                 attempts, lostAt>>
  /\ UNCHANGED <<pipeVars, retryVars, idVars, hdrVars>>

ExpungeEvent_Fetches ==
  /\ conn = "ready"
  /\ box # 0
  /\ Len(recent) < MaxRecent
  /\ \E seqno \in 1..MaxMsgs :
       /\ Emit(<<Sig("expunge", seqno)>>)
       /\ recent' = Append(recent, [st |-> "search", n |-> seqno, uids |-> <<>>])
  /\ UNCHANGED <<closed, idleTimer, idleArmed, reconnectTimer, reconnectArmed,
                 readyOnce, numFolders, conn, orphan, box, idling, pcReady,
                 folderIdx, syncCount, faults, ownerClosed,
                 ownerConnects, attempts, lostAt>>
  /\ UNCHANGED <<pipeVars, retryVars, idVars, hdrVars>>

\* 'expunge' -> onExpunge
ExpungeEvent ==
  /\ conn = "ready"
  /\ box # 0
  /\ \E seqno \in 1..MaxMsgs : Emit(<<Sig("expunge", seqno)>>)
  /\ UNCHANGED <<closed, idleTimer, idleArmed, reconnectTimer, reconnectArmed,
                 readyOnce, numFolders, conn, orphan, box, idling, pcReady,
                 folderIdx, syncCount, recent, faults, ownerClosed,
                 ownerConnects, attempts, lostAt>>
  /\ UNCHANGED <<pipeVars, retryVars, idVars, hdrVars>>

(* ------------------- callbacks of the onReady coroutine --------------- *)
\* a rejected await inside onReady: the promise of `void this.onReady()` is
\* dropped, so nothing is emitted and nothing is scheduled
OnReadyRejected(cmd) ==
  /\ pcReady' = "rejected"
  /\ out' = <<>>
  /\ failed' = cmd
  /\ NoReconnectChange

\* the callback of imap.openBox(mailbox, true, cb)
OpenBoxCb ==
  /\ pcReady = "openBox"
  /\ conn \in {"ready", "ending"}
  /\ \E err \in BOOLEAN :
       /\ err => faults < MaxFaults
       /\ faults' = (IF err THEN faults + 1 ELSE faults)
       /\ IF err
            THEN /\ OnReadyRejected("openBox")
                 /\ box' = box
            ELSE /\ Emit(<<Sig("boxOpened", folderIdx)>>)
                 /\ box' = folderIdx
                 /\ pcReady' = Issue("search")
                 /\ NoReconnectChange
  /\ UNCHANGED <<closed, idleTimer, idleArmed, readyOnce, numFolders, conn,
                 orphan, idling, folderIdx, syncCount, recent, ownerClosed,
                 ownerConnects, attempts, lostAt>>
  /\ UNCHANGED <<pipeVars, retryVars, idVars, hdrVars>>

\* the callback of imap.search([['SINCE', ...]], cb) in initialSync
SyncSearchCb ==
  /\ pcReady = "search"
  /\ conn \in {"ready", "ending"}
  /\ \/ \* err: reject(err)
        /\ faults < MaxFaults
        /\ faults' = faults + 1
        /\ OnReadyRejected("syncSearch")
        /\ UNCHANGED <<idleTimer, idleArmed, idling, folderIdx, syncCount,
                       lostAt>>
     \/ \* no results: initialSyncComplete with count 0, resolve, startIdle
        \E throws \in BOOLEAN :
          /\ throws => faults < MaxFaults
          /\ EmitIdle(<<Sig("initialSyncComplete", 0)>>, throws)
          /\ AfterSync(throws)
          /\ syncCount' = 0
     \/ \* results: imap.fetch(results, ...)
        \E k \in 1..MaxMsgs :
          /\ syncCount' = k
          /\ pcReady' = Issue("fetch")
          /\ Emit(<<>>)
          /\ NoReconnectChange
          /\ UNCHANGED <<idleTimer, idleArmed, idling, folderIdx, faults,
                         lostAt>>
  /\ UNCHANGED <<closed, readyOnce, numFolders, conn, orphan, box, recent,
                 ownerClosed, ownerConnects, attempts>>
  /\ UNCHANGED <<pipeVars, retryVars, idVars, hdrVars>>

\* fetcher 'error' / 'end' in initialSync
SyncFetchCb ==
  /\ pcReady = "fetch"
  /\ conn \in {"ready", "ending"}
  /\ \/ \* fetcher.once('error'): reject(err)
        /\ faults < MaxFaults
        /\ faults' = faults + 1
        /\ OnReadyRejected("syncFetch")
        /\ UNCHANGED <<idleTimer, idleArmed, idling, folderIdx, lostAt>>
     \/ \* fetcher.once('end'): initialSyncComplete, resolve, startIdle
        \E throws \in BOOLEAN :
          /\ throws => faults < MaxFaults
          /\ EmitIdle(<<Sig("initialSyncComplete", syncCount)>>, throws)
          /\ AfterSync(throws)
  /\ UNCHANGED <<closed, readyOnce, numFolders, conn, orphan, box, syncCount,
                 recent, ownerClosed, ownerConnects, attempts>>
  /\ UNCHANGED <<pipeVars, retryVars, idVars, hdrVars>>

(* ------------------- callbacks of a fetchRecent promise --------------- *)
\* fetchRecent(...).catch(err => this.emit('error', ...)) in onMail
FetchRecentRejected(cmd) ==
  /\ out' = <<Sig("error", 0)>>
  /\ failed' = cmd
  /\ NoReconnectChange

Remove(s, i) == SubSeq(s, 1, i - 1) \o SubSeq(s, i + 1, Len(s))

\* the callback of imap.search(['ALL'], cb) in fetchRecent
RecentSearchCb ==
  /\ conn \in {"ready", "ending"}
  /\ \E i \in 1..Len(recent) :
       /\ recent[i].st = "search"
       /\ \/ \* err: reject(err)
             /\ faults < MaxFaults
             /\ faults' = faults + 1
             /\ FetchRecentRejected("recentSearch")
             /\ recent' = Remove(recent, i)
          \/ \* no results: resolve()
             /\ Emit(<<>>)
             /\ recent' = Remove(recent, i)
             /\ NoReconnectChange
             /\ faults' = faults
          \/ \* results.slice(-limit), imap.fetch(uids, ...)
             \E len \in 1..MaxMsgs :
               /\ recent' = IF conn = "ready"
                              THEN [recent EXCEPT ![i] =
                                     [st |-> "fetch", n |-> recent[i].n,
                                      uids |-> SliceLast(UidsUpTo(len),
                                                         FetchRecentLimit)]]
                              ELSE Remove(recent, i)
               /\ Emit(<<>>)
               /\ NoReconnectChange
               /\ faults' = faults
  /\ UNCHANGED <<closed, idleTimer, idleArmed, readyOnce, numFolders, conn,
                 orphan, box, idling, pcReady, folderIdx, syncCount,
                 ownerClosed, ownerConnects, attempts, lostAt>>
  /\ UNCHANGED <<pipeVars, retryVars, idVars, hdrVars>>

\* msg.once('end'): one 'message' signal for the next fetched envelope
RecentMessage ==
  /\ conn \in {"ready", "ending"}
  /\ \E i \in 1..Len(recent) :
       /\ recent[i].st = "fetch"
       /\ recent[i].uids # <<>>
       /\ Emit(<<Sig("message", Head(recent[i].uids))>>)
       /\ recent' = [recent EXCEPT ![i].uids = Tail(recent[i].uids)]
  /\ UNCHANGED <<closed, idleTimer, idleArmed, reconnectTimer, reconnectArmed,
                 readyOnce, numFolders, conn, orphan, box, idling, pcReady,
                 folderIdx, syncCount, faults, ownerClosed, ownerConnects,
                 attempts, lostAt>>
  /\ UNCHANGED <<pipeVars, retryVars, idVars, hdrVars>>

\* fetcher 'error' / 'end' in fetchRecent
RecentFetchCb ==
  /\ conn \in {"ready", "ending"}
  /\ \E i \in 1..Len(recent) :
       /\ recent[i].st = "fetch"
       /\ recent' = Remove(recent, i)
       /\ \/ \* fetcher.once('error'): reject(err)
             /\ faults < MaxFaults
             /\ faults' = faults + 1
             /\ FetchRecentRejected("recentFetch")
          \/ \* fetcher.once('end'): resolve()
             /\ recent[i].uids = <<>>
             /\ Emit(<<>>)
             /\ NoReconnectChange
             /\ faults' = faults
  /\ UNCHANGED <<closed, idleTimer, idleArmed, readyOnce, numFolders, conn,
                 orphan, box, idling, pcReady, folderIdx, syncCount,
                 ownerClosed, ownerConnects, attempts, lostAt>>
  /\ UNCHANGED <<pipeVars, retryVars, idVars, hdrVars>>

(* ----------------- the orchestrator's 'message' handler --------------- *)
\* a failure that ends every handler invocation in flight (C16 must reject it)
IngestFailed_StopsAll(t) ==
  tasks' = [o \in 1..Len(tasks) |->
              IF o = t \/ tasks[o].st \in {"fetchFull", "parse", "index"}
                THEN [tasks[o] EXCEPT !.st = "failed", !.err = "ingest"]
                ELSE tasks[o]]

\* the catch of the handler's outer try: '[IMAP->ES] failed to index message'
IngestFailed(t) ==
  tasks' = [tasks EXCEPT ![t].st = "failed", ![t].err = "ingest"]

\* client.on('message', ...): uid check, then fetchFullMessageByUid(uid)
MessageSignal ==
  /\ Len(tasks) < MaxTasks
  /\ \E uid \in 0..MaxUid :
       tasks' = Append(tasks, NewTask(Account, uid))
  /\ UNCHANGED store
  /\ UNCHANGED <<sessVars, retryVars, idVars, hdrVars>>

\* fetchFullMessageByUid settles
FetchFullCb ==
  /\ \E t \in 1..Len(tasks) :
       /\ tasks[t].st = "fetchFull"
       /\ \/ tasks' = [tasks EXCEPT ![t].st = "parse"]
          \/ IngestFailed(t)
  /\ UNCHANGED store
  /\ UNCHANGED <<sessVars, retryVars, idVars, hdrVars>>

\* the same message parses to the same Message-ID every time
SameMessageSameId(t, id) ==
  \A o \in 1..Len(tasks) :
    (tasks[o].acct = tasks[t].acct /\ tasks[o].uid = tasks[t].uid
       /\ tasks[o].id # NoId) => tasks[o].id = id

\* simpleParser settles; the document is built and indexEmail(doc) is called
ParseCb ==
  /\ \E t \in 1..Len(tasks) :
       /\ tasks[t].st = "parse"
       /\ \/ \E mid \in MessageIds \cup {NoMid} :
               LET id == DocId(mid, tasks[t].acct, tasks[t].uid) IN
                 /\ SameMessageSameId(t, id)
                 /\ tasks' = [tasks EXCEPT ![t].st = "index", ![t].id = id]
          \/ IngestFailed(t)
  /\ UNCHANGED store
  /\ UNCHANGED <<sessVars, retryVars, idVars, hdrVars>>

\* a handler that starts the classification block whatever indexEmail
\* answered (C5 must reject it)
AfterIndex_Unchecked(t, ok) ==
  tasks' = [tasks EXCEPT ![t].st = "classify", ![t].indexed = ok,
                         ![t].attempt = 1]

\* what the handler does once `await indexEmail(doc)` has settled
AfterIndex(t, ok) ==
  IF ok
    THEN \* the async classification block runs up to its first fetch
         tasks' = [tasks EXCEPT ![t].st = "classify", ![t].indexed = TRUE,
                                ![t].attempt = 1]
    ELSE IngestFailed(t)

\* a handler that awaits the classification in flight before it lets an index
\* write settle (C17 must reject it)
IndexCb_AfterClassification ==
  /\ \A a \in 1..Len(tasks) : tasks[a].st \notin {"classify", "backoff"}
  /\ \E t \in 1..Len(tasks), ok \in BOOLEAN :
       /\ tasks[t].st = "index"
       /\ store' = (IF ok THEN IndexEmail(store, tasks[t].id, DefaultCategory)
                          ELSE store)
       /\ AfterIndex(t, ok)
  /\ UNCHANGED <<sessVars, retryVars, idVars, hdrVars>>

IndexCb_CreateOnly ==
  /\ \E t \in 1..Len(tasks), ok \in BOOLEAN :
       /\ tasks[t].st = "index"
       /\ store' = (IF ok /\ store[tasks[t].id] = Absent
                     THEN IndexEmail(store, tasks[t].id, DefaultCategory)
                     ELSE store)
       /\ AfterIndex(t, ok /\ store[tasks[t].id] = Absent)
  /\ UNCHANGED <<sessVars, retryVars, idVars, hdrVars>>

\* indexEmail settles
IndexCb ==
  /\ \E t \in 1..Len(tasks), ok \in BOOLEAN :
       /\ tasks[t].st = "index"
       /\ store' = (IF ok THEN IndexEmail(store, tasks[t].id, DefaultCategory)
                          ELSE store)
       /\ AfterIndex(t, ok)
  /\ UNCHANGED <<sessVars, retryVars, idVars, hdrVars>>

\* a handler that fetches the message again after a downstream failure (C15
\* must reject it)
DownstreamFailed_Retry(t, what) ==
  [tasks EXCEPT ![t].st = "fetchFull", ![t].err = what,
                ![t].attempt = 0, ![t].backoff = 0]

\* the catch blocks of the classification block, '[AI] classify/update failed'
\* and '[Webhook] trigger failed': the failure is logged and the block ends
DownstreamFailed(t, what) ==
  [tasks EXCEPT ![t].st = "done", ![t].err = what,
                ![t].attempt = 0, ![t].backoff = 0]

\* classifyEmail has ended with r; the block awaits updateEmailCategory or
\* lands in its catch ('[AI] classify/update failed')
ClassifyEnds(t, r) ==
  IF r.thrown
    THEN tasks' = DownstreamFailed(t, "classify")
    ELSE tasks' = [tasks EXCEPT ![t].st = "update", ![t].cat = r.cat,
                                ![t].updates = 1,
                                ![t].attempt = 0, ![t].backoff = 0]

\* the fetch of one classification attempt settles
ClassifyCb ==
  /\ \E t \in 1..Len(tasks), resp \in Responses :
       /\ tasks[t].st = "classify"
       /\ IF AttemptSucceeds(resp)
            THEN ClassifyEnds(t, [thrown |-> FALSE, cat |-> resp.category])
            ELSE IF tasks[t].attempt >= MaxAttempts
                   THEN ClassifyEnds(t, ClassifyFallback)
                   ELSE tasks' = [tasks EXCEPT
                                    ![t].st = "backoff",
                                    ![t].backoff = Backoff(tasks[t].attempt)]
  /\ UNCHANGED store
  /\ UNCHANGED <<sessVars, retryVars, idVars, hdrVars>>

\* sleep(backoff) ends: the loop makes its next attempt
BackoffDone ==
  /\ \E t \in 1..Len(tasks) :
       /\ tasks[t].st = "backoff"
       /\ tasks' = [tasks EXCEPT ![t].st = "classify",
                                 ![t].attempt = tasks[t].attempt + 1]
  /\ UNCHANGED store
  /\ UNCHANGED <<sessVars, retryVars, idVars, hdrVars>>

\* a block that notifies for every category (C14 must reject it)
AfterUpdate_Always(cat) == "webhook"

\* if (cat === 'Interested') triggerWebhooks(doc)
AfterUpdate(cat) == IF cat = "Interested" THEN "webhook" ELSE "done"

\* updateEmailCategory settles
UpdateCb ==
  /\ \E t \in 1..Len(tasks), ok \in BOOLEAN :
       /\ tasks[t].st = "update"
       /\ IF ok /\ store[tasks[t].id] # Absent
            THEN /\ store' = UpdateEmailCategory(store, tasks[t].id, tasks[t].cat)
                 /\ tasks' = [tasks EXCEPT ![t].st = AfterUpdate(tasks[t].cat)]
            ELSE /\ store' = store
                 /\ tasks' = DownstreamFailed(t, "classify")
  /\ UNCHANGED <<sessVars, retryVars, idVars, hdrVars>>

\* import('./integrations/webhooks') resolves and triggerWebhooks(doc) is
\* called; a sink that fails is caught inside triggerWebhooks, anything else it
\* throws lands in the catch '[Webhook] trigger failed'
WebhookCb ==
  /\ \E t \in 1..Len(tasks) :
       /\ tasks[t].st = "webhook"
       /\ \/ tasks' = [tasks EXCEPT ![t].st = "done",
                                    ![t].notified = tasks[t].notified + 1]
          \/ tasks' = [DownstreamFailed(t, "webhook") EXCEPT
                         ![t].notified = tasks[t].notified + 1]
  /\ UNCHANGED store
  /\ UNCHANGED <<sessVars, retryVars, idVars, hdrVars>>

(* ------------ classifyEmail, generateText, embedText alone ------------ *)
\* the function is called: the loop is entered and the first fetch is issued
RetryCall ==
  /\ call.st \in {"idle", "returned", "thrown"}
  /\ \E fn \in RemoteCalls :
       call' = [fn |-> fn, st |-> "fetch", attempt |-> 1, wait |-> 0,
                resp |-> NoResp, result |-> NoResult]
  /\ UNCHANGED <<sessVars, pipeVars, idVars, hdrVars>>

\* the fetch of one attempt settles with the answer resp
RetryFetchCb ==
  /\ call.st = "fetch"
  /\ \E resp \in ResponsesOf(call.fn) :
       LET r == Try(call.fn, resp) IN
         IF r.ok
           THEN call' = [call EXCEPT !.st = "returned", !.resp = resp,
                           !.result = [thrown |-> FALSE, value |-> r.value]]
           ELSE IF call.attempt >= MaxAttemptsOf(call.fn)
                  THEN LET e == Exhausted(call.fn, call.attempt, resp) IN
                         call' = [call EXCEPT
                                    !.st = IF e.thrown THEN "thrown"
                                                       ELSE "returned",
                                    !.resp = resp, !.result = e]
                  ELSE call' = [call EXCEPT
                                  !.st = "sleep", !.resp = resp,
                                  !.wait = BackoffOf(call.fn, call.attempt)]
  /\ UNCHANGED <<sessVars, pipeVars, idVars, hdrVars>>

\* sleep(backoff) ends: while (attempt < maxAttempts) { attempt += 1; fetch
RetrySleepDone ==
  /\ call.st = "sleep"
  /\ call' = [call EXCEPT !.st = "fetch", !.attempt = call.attempt + 1,
                          !.wait = 0, !.resp = NoResp]
  /\ UNCHANGED <<sessVars, pipeVars, idVars, hdrVars>>

Next ==
  \/ Connect
  \/ Close
  \/ ReconnectFire
  \/ IdleWatchdog
  \/ ReadyEvent
  \/ ErrorEvent
  \/ EndEvent
  \/ OrphanEnd
  \/ MailEvent
  \/ ExpungeEvent
  \/ OpenBoxCb
  \/ SyncSearchCb
  \/ SyncFetchCb
  \/ RecentSearchCb
  \/ RecentMessage
  \/ RecentFetchCb

Spec == Init /\ [][Next]_vars

\* timers fire, a healthy transport answers connection attempts and commands
FairSpec ==
  /\ Spec
  /\ WF_vars(ReconnectFire)
  /\ WF_vars(ReadyEvent)
  /\ WF_vars(OpenBoxCb)
  /\ WF_vars(SyncSearchCb)
  /\ WF_vars(SyncFetchCb)

\* a session that is Watching, as the orchestrator sees it while messages arrive
SessionWatching ==
  /\ closed = FALSE
  /\ idleTimer = TRUE
  /\ idleArmed = TRUE
  /\ reconnectTimer = FALSE
  /\ reconnectArmed = 0
  /\ readyOnce = FALSE
  /\ numFolders = 1
  /\ conn = "ready"
  /\ orphan = FALSE
  /\ box = 1
  /\ idling = TRUE
  /\ pcReady = "done"
  /\ folderIdx = 1
  /\ syncCount = 0
  /\ recent = <<>>
  /\ out = <<>>
  /\ failed = "none"
  /\ faults = 0
  /\ ownerClosed = FALSE
  /\ ownerConnects = 1
  /\ attempts = 1
  /\ lostAt = 0

PipeInit ==
  /\ SessionWatching
  /\ tasks = <<>>
  /\ store = [d \in DocIds |-> Absent]
  /\ call = NoCall
  /\ docs = <<>>
  /\ hdr = NoHeaders

PipeNext ==
  \/ MessageSignal
  \/ FetchFullCb
  \/ ParseCb
  \/ IndexCb
  \/ ClassifyCb
  \/ BackoffDone
  \/ UpdateCb
  \/ WebhookCb

\* the orchestrator fed by a Watching session
PipeSpec == PipeInit /\ [][PipeNext]_vars

(* ---------------------- the id of a built document -------------------- *)
\* const doc = { id: parsed.messageId ?? `${c.id}-${uid}`, ... } for a message
\* that the session of m.acct announced while m.mailbox was open
BuildDoc ==
  /\ Len(docs) < MaxDocs
  /\ \E m \in Messages :
       docs' = Append(docs, [msg |-> m, id |-> DocId(m.mid, m.acct, m.uid)])
  /\ UNCHANGED <<sessVars, pipeVars, retryVars, hdrVars>>

IdNext == BuildDoc

\* documents built for arbitrary messages of the watched mailboxes
IdSpec == PipeInit /\ [][IdNext]_vars

(* ----------------------- the header block of a message ---------------- *)
\* stream.on('data'): buffer += chunk, here one line at a time
BodyData ==
  /\ hdr.st = "receiving"
  /\ Len(hdr.lines) < MaxLines
  /\ \E line \in HeaderLines :
       hdr' = [hdr EXCEPT !.lines = Append(hdr.lines, line)]
  /\ UNCHANGED <<sessVars, pipeVars, retryVars, idVars>>

\* stream.once('end'): the buffer is split into lines and parsed
BodyEnd ==
  /\ hdr.st = "receiving"
  /\ hdr' = [hdr EXCEPT !.st = "parsed",
                        !.envelope = ParseHeaders(EmptyEnvelope, hdr.lines)]
  /\ UNCHANGED <<sessVars, pipeVars, retryVars, idVars>>

HeaderNext ==
  \/ BodyData
  \/ BodyEnd

\* the header parse of initialSync and fetchRecent, one message
HeaderSpec == PipeInit /\ [][HeaderNext]_vars

RetryNext ==
  \/ RetryCall
  \/ RetryFetchCb
  \/ RetrySleepDone

\* the remote calls, one call at a time
RetrySpec == PipeInit /\ [][RetryNext]_vars

(* ============================== claims ================================ *)

\* C1: a session that loses its connection by an error while Watching
\* reaches Watching again, unless a further fault hits the transport or its
\* owner calls close() or connect() in between.
C1_RecoversToWatching ==
  (lostAt # 0 /\ faults = lostAt /\ ownerConnects = 1 /\ ~ownerClosed)
    ~> (Watching \/ faults > lostAt \/ ownerClosed \/ ownerConnects > 1)

\* C2: once close() has been called (and connect() not called again) the
\* session emits no signal.
C2_NoSignalAfterClose == ownerClosed => out = <<>>

\* C3: after close() (and before a later connect()) neither the idle
\* watchdog nor the reconnect timeout is pending.
C3_NoTimersAfterClose == ownerClosed => ~idleArmed /\ reconnectArmed = 0

\* C4: while the session stays closed by its owner, no connection attempt is
\* issued and the closed flag stays set.
C4_ClosedIsTerminal ==
  [][ownerClosed /\ ownerClosed' => attempts' = attempts /\ closed']_vars

\* C5: for every message the classification and the category update are
\* issued only once its own index write was acknowledged, the document then
\* being in the store; a message whose fetch, parse or index write failed
\* never gets a classification or a category update and stays failed.
C5_IndexBeforeEnrich ==
  /\ [](\A t \in 1..Len(tasks) :
          /\ (tasks[t].st \in {"classify", "backoff", "update", "webhook"}
                \/ tasks[t].updates > 0 \/ tasks[t].cat # "<none>")
               => (tasks[t].indexed /\ tasks[t].id # NoId
                     /\ store[tasks[t].id] # Absent)
          /\ tasks[t].st = "failed"
               => (~tasks[t].indexed /\ tasks[t].attempt = 0
                     /\ tasks[t].updates = 0 /\ tasks[t].cat = "<none>"))
  /\ [][\A t \in 1..Len(tasks) :
          /\ tasks[t].st = "failed" => tasks'[t] = tasks[t]
          /\ tasks'[t].updates > tasks[t].updates => tasks[t].indexed]_vars

C5_Witness ==
  \E t, o \in 1..Len(tasks) :
    /\ tasks[t].st = "failed" /\ tasks[t].id # NoId
    /\ tasks[o].updates = 1 /\ tasks[o].indexed
    /\ store[tasks[o].id] \in Allowed

\* C6: every index write stores the document with category Uncategorized,
\* and every document in the store has one of the six category values.
C6_CategoryAlwaysKnown ==
  /\ [](\A d \in DocIds : store[d] = Absent \/ store[d] \in AICategory)
  /\ [][\A t \in 1..Len(tasks) :
          (tasks[t].st = "index" /\ tasks'[t].indexed)
            => store'[tasks[t].id] = "Uncategorized"]_vars

C6_Witness ==
  \E d, e \in DocIds :
    /\ store[d] \in Allowed
    /\ store[e] = "Uncategorized"
    /\ \E t \in 1..Len(tasks) : tasks[t].id = e /\ tasks[t].st = "classify"

\* C7: classifyEmail gives up only on the failure of its fifth attempt, and
\* then returns Uncategorized instead of throwing; the message goes on to the
\* category update, its document is in the store, Uncategorized unless another
\* delivery of the same id was classified, no notification is dispatched for
\* it and it is not reported as an ingestion failure.
C7_ExhaustedClassifier ==
  /\ [](\A t \in 1..Len(tasks) :
          /\ tasks[t].attempt <= MaxAttempts
          /\ tasks[t].cat = "Uncategorized"
               => /\ tasks[t].st \in {"update", "done"}
                  /\ store[tasks[t].id] # Absent
                  /\ tasks[t].notified = 0
                  /\ tasks[t].err # "ingest"
                  /\ \/ store[tasks[t].id] = "Uncategorized"
                     \/ \E o \in 1..Len(tasks) :
                          tasks[o].id = tasks[t].id /\ tasks[o].cat \in Allowed)
  /\ [][\A t \in 1..Len(tasks) :
          /\ (tasks[t].st = "classify" /\ tasks'[t].st \notin {"classify", "backoff"})
               => /\ tasks'[t].st = "update" /\ tasks'[t].err = "none"
                  /\ tasks'[t].cat = "Uncategorized"
                       <=> tasks'[t].cat \notin Allowed
                  /\ tasks'[t].cat = "Uncategorized"
                       => tasks[t].attempt = MaxAttempts
          /\ (tasks[t].st = "classify" /\ tasks'[t].st = "backoff")
               => tasks[t].attempt < MaxAttempts]_vars

C7_Witness ==
  \E t \in 1..Len(tasks) :
    /\ tasks[t].st = "done"
    /\ tasks[t].cat = "Uncategorized"
    /\ tasks[t].err = "none"
    /\ tasks[t].notified = 0
    /\ store[tasks[t].id] = "Uncategorized"

\* C8: a failing search or fetch of fetchRecent makes the session emit an
\* error signal and schedule a reconnect.
C8_RecentFetchFailureReconnects ==
  failed \in {"recentSearch", "recentFetch"}
    => Emitted("error") /\ reconnectTimer

\* C9: a failing openBox, initial-sync search or initial-sync fetch makes the
\* session emit an error signal and schedule a reconnect.
C9_SyncFailureReported ==
  failed \in {"openBox", "syncSearch", "syncFetch"}
    => Emitted("error") /\ reconnectTimer

\* C10: a connect() call on a session whose earlier connect() is still in
\* progress or established issues no further connection attempt.
C10_ConnectIdempotent ==
  [][ownerConnects' > ownerConnects /\ ownerConnects >= 1 /\ ~ownerClosed
       /\ conn \in {"connecting", "ready"}
       => attempts' = attempts]_vars

\* C11: on a session started again by connect() after close(), an 'error'
\* event of the connection leaves a reconnect timeout pending, as it does on a
\* session started for the first time.
C11_RestartSchedulesReconnect ==
  (~ownerClosed /\ ownerConnects > 1 /\ Emitted("error") /\ failed = "none")
    => reconnectArmed > 0

\* C12: the step in which the initial-sync search answers with no results
\* emits exactly one initialSyncComplete signal, of count 0, and no message
\* signal; it rejects nothing; startIdle() is called in it: IDLE and its
\* watchdog are on afterwards, or idle() itself threw, which is then the only
\* source of an error signal in the step.
C12_EmptySyncCompletes ==
  [][(pcReady = "search" /\ Sig("initialSyncComplete", 0) \in
        {out'[i] : i \in 1..Len(out')})
       => /\ Len(SelectSeq(out', LAMBDA e : e.type = "initialSyncComplete")) = 1
          /\ "message" \notin SigTypes(out')
          /\ failed' \in {"none", "idle"}
          /\ "error" \in SigTypes(out') <=> failed' = "idle"
          /\ failed' = "none" => idling' /\ idleArmed' /\ idleTimer'
          /\ pcReady' \in {"openBox", "done", "hung"}]_vars

C12_Witness ==
  /\ out = <<Sig("initialSyncComplete", 0)>>
  /\ failed = "none"
  /\ idling /\ idleArmed
  /\ pcReady = "done"

\* C13: classifyEmail never throws and returns only one of the five labels or
\* Uncategorized; an answer whose category is missing, no string or outside
\* the five labels is not returned: the loop sleeps and retries, or, on the
\* last attempt, returns Uncategorized.
C13_ResultInClosedSet ==
  call.fn = "classifyEmail" =>
    /\ call.st # "thrown"
    /\ call.st = "returned"
         => ~call.result.thrown /\ call.result.value \in AICategory
    /\ (call.resp # NoResp /\ call.resp.net = "ok" /\ call.resp.text = "json"
          /\ call.resp.category \notin Allowed)
         => \/ call.st = "sleep" /\ call.attempt < MaxAttempts
            \/ /\ call.st = "returned" /\ call.attempt = MaxAttempts
               /\ call.result.value = "Uncategorized"

C13_Witness ==
  /\ call.fn = "classifyEmail"
  /\ call.st = "sleep"
  /\ call.resp # NoResp
  /\ call.resp.net = "ok" /\ call.resp.text = "json"
  /\ call.resp.category = "interested"

\* C18: no loop makes more attempts than its maxAttempts (5 for classifyEmail
\* and generateText, 4 for embedText); generateText and embedText throw only
\* when the attempt numbered maxAttempts has failed, and then throw the error
\* of that attempt; classifyEmail then returns Uncategorized without throwing.
C18_ExhaustedRetries ==
  /\ call.fn \in {"classifyEmail", "generateText"} => call.attempt <= 5
  /\ call.fn = "embedText" => call.attempt <= 4
  /\ call.st = "thrown"
       => /\ call.fn \in {"generateText", "embedText"}
          /\ call.attempt = MaxAttemptsOf(call.fn)
          /\ ~Try(call.fn, call.resp).ok
          /\ call.result = [thrown |-> TRUE,
                            value |-> [attempt |-> call.attempt,
                                       resp |-> call.resp]]
  /\ (call.resp # NoResp /\ ~Try(call.fn, call.resp).ok
        /\ call.attempt = MaxAttemptsOf(call.fn))
       => IF call.fn = "classifyEmail"
            THEN /\ call.st = "returned"
                 /\ call.result = [thrown |-> FALSE, value |-> "Uncategorized"]
            ELSE call.st = "thrown"
  /\ (call.resp # NoResp /\ ~Try(call.fn, call.resp).ok
        /\ call.attempt < MaxAttemptsOf(call.fn))
       => call.st = "sleep"

C18_Witness ==
  /\ call.fn = "embedText"
  /\ call.st = "thrown"
  /\ call.attempt = 4

\* C14: for every handled message signal triggerWebhooks is called at most
\* once; it is called in the step that follows a successful category update
\* to Interested and in no other; a handler that has ended has called it
\* exactly when its classification returned Interested and its update did not
\* fail.
C14_NotifyOnlyInterested ==
  /\ [](\A t \in 1..Len(tasks) :
          /\ tasks[t].notified <= 1
          /\ tasks[t].st = "webhook" => tasks[t].cat = "Interested"
          /\ tasks[t].st = "done"
               => (tasks[t].notified = 1
                     <=> tasks[t].cat = "Interested" /\ tasks[t].err # "classify")
          /\ tasks[t].st # "done" => tasks[t].notified = 0)
  /\ [][\A t \in 1..Len(tasks) :
          /\ (tasks[t].st = "update" /\ tasks'[t].st = "webhook")
               => store'[tasks[t].id] = "Interested"
          /\ (tasks[t].st = "update" /\ tasks'[t].st = "done"
                /\ tasks[t].cat = "Interested")
               => (tasks'[t].err = "classify" /\ store' = store)
          /\ tasks'[t].notified > tasks[t].notified
               => tasks[t].st = "webhook"]_vars

C14_Witness ==
  \E t, o \in 1..Len(tasks) :
    /\ tasks[t].st = "done" /\ tasks[t].cat = "Interested"
    /\ tasks[t].notified = 1
    /\ tasks[o].st = "done" /\ tasks[o].cat = "Spam" /\ tasks[o].err = "none"
    /\ tasks[o].notified = 0

\* C15: the step in which the classification of a message gives up, its
\* category update fails or its webhook call fails changes nothing of the
\* session (closed flag, timers, connection: no reconnect is scheduled),
\* creates no handler invocation, leaves the store as it is with the document
\* in it, and never puts the message back to fetching, parsing or indexing; a
\* handler that has ended stays ended.
C15_DownstreamFailureIsolated ==
  /\ [](\A t \in 1..Len(tasks) :
          tasks[t].err \in {"classify", "webhook"}
            => (tasks[t].st = "done" /\ store[tasks[t].id] # Absent))
  /\ [][\A t \in 1..Len(tasks) :
          /\ (\/ tasks[t].err = "none" /\ tasks'[t].err \in {"classify", "webhook"}
              \/ tasks[t].st = "classify" /\ tasks'[t].cat = "Uncategorized")
               => /\ sessVars' = sessVars
                  /\ Len(tasks') = Len(tasks)
                  /\ tasks'[t].st \in {"update", "done"}
                  /\ store' = store
                  /\ store[tasks[t].id] # Absent
          /\ tasks[t].st = "done" => tasks'[t] = tasks[t]]_vars

C15_Witness ==
  \E t, o \in 1..Len(tasks) :
    /\ tasks[t].err = "classify" /\ tasks[t].cat = "Spam"
    /\ tasks[o].err = "webhook"
    /\ store[tasks[t].id] # Absent /\ store[tasks[o].id] # Absent

\* C16: the step in which fetching, parsing or indexing one message fails
\* changes that handler invocation only: every other invocation, the store
\* and the session stay as they are; whatever has failed before, a further
\* message signal is accepted, and an invocation that waits for its fetch,
\* its parse or its index write can get it and go on, the index write putting
\* the document into the store.
C16_IngestFailureIndependent ==
  /\ [](\A o \in 1..Len(tasks) :
          /\ tasks[o].st = "fetchFull"
               => ENABLED (FetchFullCb /\ tasks'[o].st = "parse")
          /\ tasks[o].st = "parse"
               => ENABLED (ParseCb /\ tasks'[o].st = "index")
          /\ tasks[o].st = "index"
               => ENABLED (IndexCb /\ tasks'[o].indexed
                             /\ store'[tasks[o].id] = "Uncategorized"))
  /\ [](Len(tasks) < MaxTasks
          => ENABLED (MessageSignal /\ tasks'[Len(tasks) + 1].st = "fetchFull"))
  /\ [][\A t \in 1..Len(tasks) :
          (tasks[t].st # "failed" /\ tasks'[t].st = "failed")
            => /\ tasks'[t].err = "ingest"
               /\ \A o \in 1..Len(tasks) : o # t => tasks'[o] = tasks[o]
               /\ Len(tasks') = Len(tasks)
               /\ store' = store
               /\ sessVars' = sessVars]_vars

C16_Witness ==
  /\ Len(tasks) = 2
  /\ tasks[1].st = "failed"
  /\ tasks[2].indexed
  /\ store[tasks[2].id] # Absent

\* C17: while the classification of a message is pending, waiting for a fetch
\* or sleeping in its backoff, the session can take a 'mail' event, the
\* orchestrator can take a further message signal, and every other message
\* can be fetched, parsed and indexed in a step that leaves the pending
\* classification where it is.
C17_ClassificationDoesNotBlock ==
  \A a \in 1..Len(tasks) :
    tasks[a].st \in {"classify", "backoff"} =>
      /\ ENABLED MailEvent
      /\ Len(tasks) < MaxTasks => ENABLED MessageSignal
      /\ \A b \in 1..Len(tasks) :
           /\ tasks[b].st = "fetchFull"
                => ENABLED (FetchFullCb /\ tasks'[b].st = "parse"
                              /\ tasks'[a] = tasks[a])
           /\ tasks[b].st = "parse"
                => ENABLED (ParseCb /\ tasks'[b].st = "index"
                              /\ tasks'[a] = tasks[a])
           /\ tasks[b].st = "index"
                => ENABLED (IndexCb /\ tasks'[b].indexed
                              /\ store'[tasks[b].id] # Absent
                              /\ tasks'[a] = tasks[a])

C17_Witness ==
  /\ Len(tasks) = 2
  /\ tasks[1].st = "backoff"
  /\ tasks[2].st = "index"
  /\ store[tasks[1].id] # Absent

\* C19: a document's id is the Message-ID of its message when it has one and
\* accountId-uid otherwise, and two different messages without a Message-ID,
\* of any accounts and mailboxes, get different ids.
C19_DocumentIdUnique ==
  \A i, j \in 1..Len(docs) :
    /\ docs[i].id = (IF docs[i].msg.mid # NoMid
                       THEN [k |-> "messageId", a |-> docs[i].msg.mid, u |-> 0]
                       ELSE [k |-> "acct-uid", a |-> docs[i].msg.acct,
                             u |-> docs[i].msg.uid])
    /\ (docs[i].msg # docs[j].msg /\ docs[i].msg.mid = NoMid
          /\ docs[j].msg.mid = NoMid)
         => docs[i].id # docs[j].id

\* C20: the envelope parsed from a header block without a Date line has no
\* date, and so has the envelope parsed from a block whose Date lines hold
\* nothing that parses as a date.
C20_DateUnsetUnlessParsed ==
  hdr.st = "parsed" =>
    /\ (\A i \in 1..Len(hdr.lines) : hdr.lines[i].field # "date")
         => hdr.envelope.date = UnsetDate
    /\ (\A i \in 1..Len(hdr.lines) :
          hdr.lines[i].field = "date" => hdr.lines[i].value = "not a date")
         => hdr.envelope.date = UnsetDate

\* C21: whatever error, end and watchdog events arrive, at most one reconnect
\* timeout is pending.
C21_ReconnectDebounced == reconnectArmed <= 1

C21_Witness ==
  /\ reconnectArmed = 1
  /\ faults = 2
  /\ attempts = ownerConnects
  /\ ~ownerClosed
  /\ failed = "none"
  /\ Emitted("error") \/ Emitted("disconnected")

\* C22: a session that is Watching has an idle-watchdog timeout pending, also
\* after the watchdog has fired and re-issued IDLE without an error.
C22_IdleDeadlineRearmed == Watching => idleArmed

\* C23: with two or more configured mailboxes, IDLE is on only once the loop
\* of onReady has synced every mailbox.
C23_IdleAfterAllSynced == (numFolders >= 2 /\ idling) => pcReady = "done"

\* C24: when a new-mail notification announces n messages, n within the
\* window of 10, the fetch that answers it takes every one of the n newest
\* messages of the mailbox (each of which then gets its message signal).
C24_NewMessagesFetched ==
  [][\A i \in 1..Len(recent) :
       (/\ Len(recent') = Len(recent)
        /\ recent[i].st = "search"
        /\ recent'[i].st = "fetch"
        /\ recent[i].n <= DefaultLimit)
       => LET fetched == recent'[i].uids
              size == fetched[Len(fetched)]
          IN  \A u \in 1..size :
                u > size - recent[i].n
                  => \E j \in 1..Len(fetched) : fetched[j] = u]_vars

\* C25: a step that emits an expunge signal emits exactly that one signal,
\* with the sequence number of the notification, and changes neither the
\* timers, nor the closed flag, nor the fetches in flight, nor the index
\* store, nor the messages being handled.
C25_ExpungeObserveOnly ==
  [][(\E i \in 1..Len(out') : out'[i].type = "expunge")
       => /\ Len(out') = 1
          /\ out'[1].arg \in 1..MaxMsgs
          /\ UNCHANGED <<closed, idleTimer, idleArmed, reconnectTimer,
                         reconnectArmed, recent, store, tasks>>]_vars

C25_Witness ==
  /\ Watching
  /\ idleArmed
  /\ out = <<Sig("expunge", 2)>>
  /\ recent = <<>>

\* C26: classifyEmail waits 1000 * 2^(k-1) ms after its failed attempt k and
\* tries at most 5 times, generateText 500 * 2^(k-1) ms and 5 times, embedText
\* 500 * 2^(k-1) ms and 4 times; no wait follows the last failed attempt, and
\* an attempt that succeeds ends the loop in the same step, without a wait.
C26_BackoffSchedule ==
  /\ [](call.st # "idle" =>
         LET base == IF call.fn = "classifyEmail" THEN 1000 ELSE 500
             most == IF call.fn = "embedText" THEN 4 ELSE 5
         IN  /\ call.attempt \in 1..most
             /\ call.st = "sleep" =>
                  /\ call.attempt < most
                  /\ call.wait = base * 2^(call.attempt - 1)
             /\ call.st # "sleep" => call.wait = 0)
  /\ [][(call.st = "fetch" /\ call'.st # "fetch")
         => /\ call'.attempt = call.attempt
            /\ Try(call.fn, call'.resp).ok
                 => call'.st = "returned" /\ ~call'.result.thrown
            /\ call'.st = "sleep" => ~Try(call.fn, call'.resp).ok]_vars

C26_Witness ==
  /\ call.fn = "embedText"
  /\ call.st = "sleep"
  /\ call.attempt = 3
  /\ call.wait = 2000
  /\ call.resp.net = "status"

\* C27: a call that has returned on an HTTP-ok answer returned a validated
\* value: classifyEmail a category of the allowed labels (or its fallback once
\* the five attempts are used up), generateText the string of a recognised
\* field of the parsed JSON, embedText the array of an embedding field; an
\* ok answer of another shape is a failed attempt.
C27_ShapeValidated ==
  (call.st = "returned" /\ call.resp.net = "ok") =>
    CASE call.fn = "classifyEmail" ->
           \/ /\ call.resp.text = "json"
              /\ call.resp.category \in Allowed
              /\ call.result.value = call.resp.category
           \/ call.attempt = 5 /\ call.result.value = "Uncategorized"
      [] call.fn = "generateText" ->
           /\ call.resp.text = "json"
           /\ call.resp.out = "generated"
           /\ call.result.value = call.resp.out
      [] call.fn = "embedText" ->
           /\ call.resp.text = "json"
           /\ call.resp.emb \in {"vector", "emptyVector"}
           /\ call.result.value = call.resp.emb

\* C28: signals of the same message lead to the same document id, the store
\* holds no more documents than distinct messages were indexed, and the index
\* write of a message can succeed whether or not its document is already
\* there, so that a duplicate signal ends in no error of its own.
C28_DuplicatesAbsorbed ==
  /\ \A a, b \in 1..Len(tasks) :
       (/\ tasks[a].acct = tasks[b].acct
        /\ tasks[a].uid = tasks[b].uid
        /\ tasks[a].indexed
        /\ tasks[b].indexed)
       => tasks[a].id = tasks[b].id /\ store[tasks[a].id] # Absent
  /\ Cardinality({d \in DocIds : store[d] # Absent})
       <= Cardinality({<<tasks[t].acct, tasks[t].uid>> :
                         t \in {o \in 1..Len(tasks) : tasks[o].indexed}})
  /\ \A t \in 1..Len(tasks) :
       tasks[t].st = "index"
         => ENABLED (IndexCb /\ tasks'[t].indexed /\ tasks'[t].err = "none")

C28_Witness ==
  /\ Len(tasks) = 2
  /\ tasks[1].uid = tasks[2].uid
  /\ tasks[1].indexed /\ tasks[2].indexed
  /\ tasks[1].err = "none" /\ tasks[2].err = "none"
  /\ tasks[1].st = "done" /\ tasks[2].st = "done"
  /\ Cardinality({d \in DocIds : store[d] # Absent}) = 1

\* C29: an index write that settles for a message whose document already
\* carries a classified label leaves that label in the store.
C29_ClassifiedLabelKept ==
  [][\A t \in 1..Len(tasks) :
       (/\ Len(tasks') = Len(tasks)
        /\ tasks[t].st = "index"
        /\ tasks'[t].st # "index"
        /\ store[tasks[t].id] \in Allowed)
       => store'[tasks[t].id] = store[tasks[t].id]]_vars

\* C30: the envelope parsed from a header block carries, for each of Subject,
\* Date, From and To, the value of the first line of the block that names the
\* field, however the block spells the name.
C30_FirstOccurrenceWins ==
  hdr.st = "parsed" =>
    \A f \in {"subject", "date", "from", "to"} :
      LET at == {i \in 1..Len(hdr.lines) : hdr.lines[i].field = f}
      IN  at # {} =>
            LET first == CHOOSE i \in at : \A j \in at : i <= j
            IN  IF f = "date"
                  THEN hdr.envelope.date.src = hdr.lines[first].value
                  ELSE hdr.envelope[f] = hdr.lines[first].value

\* C31: when the owner has connected once, so that only a firing reconnect
\* timer has replaced a connection, the end event of the replaced connection
\* arms no reconnect timeout.
C31_ReconnectNotRetriggered ==
  [][(ownerConnects = 1 /\ ~ownerClosed /\ orphan /\ ~orphan')
       => reconnectArmed' = reconnectArmed]_vars
====
